---- MODULE Spec2Model ----
(***************************************************************************)
(* A model of the Option class (src/src/option/index.ts, lines 7-504) and  *)
(* of the Result class with the internal success slot                      *)
(* (src/src/result/index.ts, lines 194-320).                               *)
(*                                                                         *)
(* A client program creates instances through the static factories and     *)
(* calls instance methods on them.  Instances live in `options` and        *)
(* `results`; an instance's identity is its index.  JavaScript objects     *)
(* ({ number: n }) live in `heap`; an object value is a reference into it, *)
(* and structuredClone allocates a new cell.  `last` records the most      *)
(* recent call: its receiver, arguments, return value and the callback     *)
(* invocations it made.                                                    *)
(*                                                                         *)
(* Spec is the client that creates instances and transforms them,          *)
(* SpecFactories the client that only calls the static factories,          *)
(* SpecCopy the client that extracts values and writes to the objects it   *)
(* holds references to, SpecEffects the client that hands over effect      *)
(* callbacks, SpecExtract the client that takes values out with fallbacks  *)
(* and error handlers, and SpecOption the client that makes Options in     *)
(* every way.                                                              *)
(*                                                                         *)
(* The Success, Failure and Some classes (src/src/result/failure/index.ts, *)
(* src/unnamed/part_002, src/src/option/some/index.ts, and the subclasses  *)
(* of src/src/result/index.ts, lines 6-181) keep their instances in        *)
(* `variants`; the promises of mapAsync live in `promises`.  SpecAsync is  *)
(* the client that maps asynchronously, SpecAsyncFair the same client      *)
(* under the run loop's scheduling, and SpecDesigns runs one chain of      *)
(* calls on every Result design.                                           *)
(***************************************************************************)
EXTENDS Integers, Sequences, FiniteSets, TLC

VARIABLES heap, options, results, last, variants, promises

vars == <<heap, options, results, last, variants, promises>>

(* ----------------------------- bounds ---------------------------------- *)

\* instances (Options and Results together) the client creates
MaxInst == 2
\* cells of the object heap
MaxHeap == 2

(* ------------------------- JavaScript values --------------------------- *)

Undefined == [k |-> "undefined", n |-> 0]
Null == [k |-> "null", n |-> 0]
EmptyString == [k |-> "string", n |-> 0]
False == [k |-> "boolean", n |-> 0]
Num(i) == [k |-> "number", n |-> i]
Obj(a) == [k |-> "object", n |-> a]

IsNullish(v) == v = Null \/ v = Undefined

PrimValues == {Undefined, Null, EmptyString, False, Num(0)}

\* the values a caller passes to Option in a state whose heap is h
Values(h) == PrimValues \cup {Obj(a) : a \in 1..Len(h)}

\* the values a caller passes to Result, which tells undefined from the rest
ResultValues(h) == {Undefined, Null, Num(0)} \cup {Obj(a) : a \in 1..Len(h)}

\* structural equality of v1 (in heap h1) and v2 (in heap h2)
DeepEq(h1, v1, h2, v2) ==
  IF v1.k = "object" /\ v2.k = "object" THEN h1[v1.n] = h2[v2.n] ELSE v1 = v2

\* structuredClone(v): a primitive is returned as is, an object is copied
\* into a fresh cell
structuredClone(h, v) ==
  IF v.k = "object"
    THEN [heap |-> Append(h, h[v.n]), val |-> Obj(Len(h) + 1)]
    ELSE [heap |-> h, val |-> v]

\* ref.number = 1
Mutate(h, ref) == [h EXCEPT ![ref.n] = 1]

(* ----------------------- caller-supplied callbacks --------------------- *)

\* toUndefined  = () => undefined
\* toNull       = () => null
\* inc          = (v) => typeof v === 'number' ? v + 1 : 0
\* id           = (v) => v
\* toObj        = () => ({ number: 0 })
Fns == {"toUndefined", "toNull", "inc", "id", "toObj"}

Apply(f, h, v) ==
  CASE f = "toUndefined" -> [heap |-> h, val |-> Undefined]
    [] f = "toNull" -> [heap |-> h, val |-> Null]
    [] f = "inc" -> [heap |-> h, val |-> IF v.k = "number" THEN Num(v.n + 1) ELSE Num(0)]
    [] f = "id" -> [heap |-> h, val |-> v]
    [] f = "toObj" -> [heap |-> Append(h, 0), val |-> Obj(Len(h) + 1)]
    [] f = "noop" -> [heap |-> h, val |-> Undefined]
    [] f = "write" -> [heap |-> IF v.k = "object" THEN Mutate(h, v) ELSE h, val |-> v]

\* callbacks that are called for their effect; they receive a value:
\* noop  = () => {}
\* write = (v) => { if (v is an object) v.number = 1; return v }
Effects == {"noop", "write"}

\* the same callbacks when they receive an Option: write assigns to the number
\* field of the object the received instance holds
ApplyOnOption(f, h, o) ==
  IF f = "write" /\ o.currentValue.k = "object" THEN Mutate(h, o.currentValue) ELSE h

\* the same callbacks when they receive a Result: write assigns to the number
\* field of the object in either slot of the received instance
ApplyOnResult(f, h, r) ==
  LET h1 == IF f = "write" /\ r.successValue.k = "object"
              THEN Mutate(h, r.successValue) ELSE h
  IN IF f = "write" /\ r.failureValue.k = "object" THEN Mutate(h1, r.failureValue) ELSE h1

\* the shouldRun argument of inspect / debug: true, false, () => true and
\* () => false
True == [k |-> "boolean", n |-> 1]
Conditions == {True, False, [k |-> "function", n |-> 1], [k |-> "function", n |-> 0]}

\* what the zero-argument predicate c returns
CallCondition(c) == c.n = 1

\* mutant: `if (shouldRun)`, which never calls a predicate
ShouldRunFn_truthy(shouldRun) == shouldRun.k = "function" \/ shouldRun = True

\* typeof shouldRun === 'boolean' ? shouldRun : shouldRun()
ShouldRunFn(shouldRun) ==
  IF shouldRun.k = "boolean" THEN shouldRun = True ELSE CallCondition(shouldRun)

\* a function called without arguments that may throw:
\* throwError = () => { throw new Error('Some error!') }
Thunks == Fns \cup {"throwError"}

Throws(f) == f = "throwError"

\* the handlers handed to valueOrError / orError: one that throws and one that
\* returns
Handlers == {"throwError", "noop"}

\* isZero   = (v) => v === 0
\* isNumber = (v) => typeof v === 'number'
\* isNullish = (v) => v == null
Predicates == {"isZero", "isNumber", "isNullish"}

Test(p, v) ==
  CASE p = "isZero" -> v = Num(0)
    [] p = "isNumber" -> v.k = "number"
    [] p = "isNullish" -> IsNullish(v)

\* one recorded invocation of a callback
Call(f, v) == [fn |-> f, arg |-> v]

(* ------------------------------- Option -------------------------------- *)

\* mutant: `value || null` instead of `value ?? null`
Option_new_falsy(value) ==
  [currentValue |-> IF IsNullish(value) \/ value \in {Num(0), EmptyString, False}
                      THEN Null ELSE value]

\* mutant: `this.currentValue = value`
Option_new_raw(value) == [currentValue |-> value]

\* private constructor(value?: V): this.currentValue = value ?? null
Option_new(value) ==
  [currentValue |-> IF IsNullish(value) THEN Null ELSE value]

isSome(o) == o.currentValue # Null

\* mutant: `return this.currentValue === undefined`
isNone_undefinedOnly(o) == o.currentValue = Undefined

isNone(o) == o.currentValue = Null

\* mutant: `return this.currentValue`
cloneValue_shared(h, o) == [heap |-> h, val |-> o.currentValue]

cloneValue(h, o) == structuredClone(h, o.currentValue)

\* mutant: `if (!value)` instead of the null/undefined test
Option_from_falsy(value) ==
  IF IsNullish(value) \/ value \in {Num(0), EmptyString, False}
    THEN Option_new(Undefined)
    ELSE Option_new(value)

Option_from(value) ==
  IF value = Null \/ value = Undefined
    THEN Option_new(Undefined)
    ELSE Option_new(value)

Option_none == Option_new(Undefined)

Option_some(value) == Option_new(value)

\* the outcome of an instance method: the heap and the instances after the
\* call, the returned instance (ret) or value (val), and the callback
\* invocations made
Outcome(h, os, rs, ret, val, calls) ==
  [heap |-> h, options |-> os, results |-> rs, ret |-> ret, val |-> val, calls |-> calls]

\* mutant: map returns the receiver
Option_map_noop(h, os, i, mapper) ==
  IF isSome(os[i])
    THEN Outcome(h, os, <<>>, i, Undefined, <<>>)
    ELSE Outcome(h, Append(os, Option_none), <<>>, Len(os) + 1, Undefined, <<>>)

\* mutant: the isSome() guard is missing
Option_map_unguarded(h, os, i, mapper) ==
  LET c == cloneValue(h, os[i])
      r == Apply(mapper, c.heap, c.val)
  IN Outcome(r.heap, Append(os, Option_some(r.val)), <<>>, Len(os) + 1, Undefined,
             <<Call(mapper, c.val)>>)

Option_map(h, os, i, mapper) ==
  IF isSome(os[i])
    THEN LET c == cloneValue(h, os[i])
             r == Apply(mapper, c.heap, c.val)
         IN Outcome(r.heap, Append(os, Option_some(r.val)), <<>>, Len(os) + 1, Undefined,
                    <<Call(mapper, c.val)>>)
    ELSE Outcome(h, Append(os, Option_none), <<>>, Len(os) + 1, Undefined, <<>>)

\* mutant: the isSome() guard is missing
Option_recover_unguarded(h, os, i, recoverWith) ==
  LET r == Apply(recoverWith, h, Undefined)
  IN Outcome(r.heap, Append(os, Option_some(r.val)), <<>>, Len(os) + 1, Undefined,
             <<Call(recoverWith, Undefined)>>)

\* recoverWith is called without arguments
Option_recover(h, os, i, recoverWith) ==
  IF isSome(os[i])
    THEN Outcome(h, os, <<>>, i, Undefined, <<>>)
    ELSE LET r == Apply(recoverWith, h, Undefined)
         IN Outcome(r.heap, Append(os, Option_some(r.val)), <<>>, Len(os) + 1, Undefined,
                    <<Call(recoverWith, Undefined)>>)

Option_valueOr(h, os, i, fallback) ==
  IF isSome(os[i])
    THEN LET c == cloneValue(h, os[i])
         IN Outcome(c.heap, os, <<>>, 0, c.val, <<>>)
    ELSE Outcome(h, os, <<>>, 0, fallback, <<>>)

\* the outcome of a static factory: the heap after the call, the created
\* instance, and whether an exception left the call instead
Made(h, instance, threw) == [heap |-> h, instance |-> instance, threw |-> threw]

\* mutant: `return Option.some(throwable())` without the try / catch
Option_fromError_uncaught(h, throwable) ==
  IF Throws(throwable)
    THEN Made(h, Option_none, TRUE)
    ELSE LET r == Apply(throwable, h, Undefined)
         IN Made(r.heap, Option_some(r.val), FALSE)

Option_fromError(h, throwable) ==
  IF Throws(throwable)
    THEN Made(h, Option_none, FALSE)
    ELSE LET r == Apply(throwable, h, Undefined)
         IN Made(r.heap, Option_some(r.val), FALSE)

Option_valueOrUndefined(h, os, i) ==
  IF isSome(os[i])
    THEN LET c == cloneValue(h, os[i])
         IN Outcome(c.heap, os, <<>>, 0, c.val, <<>>)
    ELSE Outcome(h, os, <<>>, 0, Undefined, <<>>)

\* computeFallback is called without arguments
\* mutant: `const fallback = computeFallback()` before the isSome() test
Option_valueOrCompute_eager(h, os, i, computeFallback) ==
  LET r == Apply(computeFallback, h, Undefined)
  IN IF isSome(os[i])
       THEN LET c == cloneValue(r.heap, os[i])
            IN Outcome(c.heap, os, <<>>, 0, c.val, <<Call(computeFallback, Undefined)>>)
       ELSE Outcome(r.heap, os, <<>>, 0, r.val, <<Call(computeFallback, Undefined)>>)

Option_valueOrCompute(h, os, i, computeFallback) ==
  IF isSome(os[i])
    THEN LET c == cloneValue(h, os[i])
         IN Outcome(c.heap, os, <<>>, 0, c.val, <<>>)
    ELSE LET r == Apply(computeFallback, h, Undefined)
         IN Outcome(r.heap, os, <<>>, 0, r.val, <<Call(computeFallback, Undefined)>>)

\* private clone(): new Option(this.cloneValue())
Option_clone(h, o) ==
  LET c == cloneValue(h, o)
  IN [heap |-> c.heap, val |-> Option_new(c.val)]

Option_inspect(h, os, i, shouldRun, fn) ==
  IF ShouldRunFn(shouldRun)
    THEN LET c == Option_clone(h, os[i])
         IN Outcome(ApplyOnOption(fn, c.heap, c.val), os, <<>>, i, Undefined,
                    <<Call(fn, c.val)>>)
    ELSE Outcome(h, os, <<>>, i, Undefined, <<>>)

Option_runEffect(h, os, i, effect) ==
  LET c == Option_clone(h, os[i])
  IN Outcome(ApplyOnOption(effect, c.heap, c.val), os, <<>>, i, Undefined,
             <<Call(effect, c.val)>>)

\* fn is called without arguments
Option_runEffectWhenNone(h, os, i, fn) ==
  IF isNone(os[i])
    THEN Outcome(Apply(fn, h, Undefined).heap, os, <<>>, i, Undefined,
                 <<Call(fn, Undefined)>>)
    ELSE Outcome(h, os, <<>>, i, Undefined, <<>>)

Option_runEffectWhenSome(h, os, i, fn) ==
  IF isSome(os[i])
    THEN LET c == cloneValue(h, os[i])
         IN Outcome(Apply(fn, c.heap, c.val).heap, os, <<>>, i, Undefined,
                    <<Call(fn, c.val)>>)
    ELSE Outcome(h, os, <<>>, i, Undefined, <<>>)

\* reducer(context, this.clone().valueOrUndefined()): the reducer receives a
\* copy of a copy of the value, or undefined; the copy in between is reachable
\* by nobody and takes no cell of the heap here
Option_reduce(h, os, i, reducer) ==
  IF isSome(os[i])
    THEN LET c == cloneValue(h, os[i])
             r == Apply(reducer, c.heap, c.val)
         IN Outcome(r.heap, os, <<>>, 0, r.val, <<Call(reducer, c.val)>>)
    ELSE LET r == Apply(reducer, h, Undefined)
         IN Outcome(r.heap, os, <<>>, 0, r.val, <<Call(reducer, Undefined)>>)

\* mutant: the isNone() guard is missing
Option_validate_unguarded(h, os, i, validator) ==
  LET c == cloneValue(h, os[i])
  IN IF Test(validator, c.val)
       THEN Outcome(c.heap, os, <<>>, i, Undefined, <<Call(validator, c.val)>>)
       ELSE Outcome(c.heap, Append(os, Option_none), <<>>, Len(os) + 1, Undefined,
                    <<Call(validator, c.val)>>)

Option_validate(h, os, i, validator) ==
  IF isNone(os[i])
    THEN Outcome(h, os, <<>>, i, Undefined, <<>>)
    ELSE LET c == cloneValue(h, os[i])
         IN IF Test(validator, c.val)
              THEN Outcome(c.heap, os, <<>>, i, Undefined, <<Call(validator, c.val)>>)
              ELSE Outcome(c.heap, Append(os, Option_none), <<>>, Len(os) + 1, Undefined,
                           <<Call(validator, c.val)>>)

\* the outcome of a method that an exception may leave
Escaped(out, threw) == [out |-> out, threw |-> threw]

\* fn receives a copy of the receiver; when it returns, the method goes on
Option_valueOrError(h, os, i, fn) ==
  IF isNone(os[i])
    THEN LET c == Option_clone(h, os[i])
         IN IF Throws(fn)
              THEN Escaped(Outcome(c.heap, os, <<>>, 0, Undefined, <<Call(fn, c.val)>>), TRUE)
              ELSE LET h1 == ApplyOnOption(fn, c.heap, c.val)
                       v == cloneValue(h1, os[i])
                   IN Escaped(Outcome(v.heap, os, <<>>, 0, v.val, <<Call(fn, c.val)>>), FALSE)
    ELSE LET v == cloneValue(h, os[i])
         IN Escaped(Outcome(v.heap, os, <<>>, 0, v.val, <<>>), FALSE)

\* mutant: the isNone() guard is missing
Option_orError_unguarded(h, os, i, fn) ==
  LET c == Option_clone(h, os[i])
  IN IF Throws(fn)
       THEN Escaped(Outcome(c.heap, os, <<>>, 0, Undefined, <<Call(fn, c.val)>>), TRUE)
       ELSE Escaped(Outcome(ApplyOnOption(fn, c.heap, c.val), os, <<>>, i, Undefined,
                            <<Call(fn, c.val)>>), FALSE)

Option_orError(h, os, i, fn) ==
  IF isNone(os[i])
    THEN LET c == Option_clone(h, os[i])
         IN IF Throws(fn)
              THEN Escaped(Outcome(c.heap, os, <<>>, 0, Undefined, <<Call(fn, c.val)>>), TRUE)
              ELSE Escaped(Outcome(ApplyOnOption(fn, c.heap, c.val), os, <<>>, i, Undefined,
                                   <<Call(fn, c.val)>>), FALSE)
    ELSE Escaped(Outcome(h, os, <<>>, i, Undefined, <<>>), FALSE)

(* ------------------------------- Result -------------------------------- *)

\* constructor(params): only the slot of the given variant is assigned; the
\* other one is a declared field that stays undefined
Result_new(isSuccessParam, value) ==
  IF isSuccessParam
    THEN [successValue |-> value, failureValue |-> Undefined]
    ELSE [successValue |-> Undefined, failureValue |-> value]

Result_success(value) == Result_new(TRUE, value)

Result_failure(value) == Result_new(FALSE, value)

\* mutant: `return !!this.successValue`
Result_isSuccess_truthy(r) == r.successValue \notin {Undefined, Null, Num(0)}

Result_isSuccess(r) == r.successValue # Undefined

Result_isFailure(r) == ~Result_isSuccess(r)

\* mutant: the isSuccess() guard is missing
Result_map_unguarded(h, rs, i, mapper) ==
  LET c == structuredClone(h, rs[i].successValue)
      r == Apply(mapper, c.heap, c.val)
  IN Outcome(r.heap, <<>>, Append(rs, Result_success(r.val)), Len(rs) + 1, Undefined,
             <<Call(mapper, c.val)>>)

Result_map(h, rs, i, mapper) ==
  IF Result_isSuccess(rs[i])
    THEN LET c == structuredClone(h, rs[i].successValue)
             r == Apply(mapper, c.heap, c.val)
         IN Outcome(r.heap, <<>>, Append(rs, Result_success(r.val)), Len(rs) + 1, Undefined,
                    <<Call(mapper, c.val)>>)
    ELSE Outcome(h, <<>>, Append(rs, Result_failure(rs[i].failureValue)), Len(rs) + 1,
                 Undefined, <<>>)

Result_mapFailure(h, rs, i, mapper) ==
  IF Result_isFailure(rs[i])
    THEN LET c == structuredClone(h, rs[i].failureValue)
             r == Apply(mapper, c.heap, c.val)
         IN Outcome(r.heap, <<>>, Append(rs, Result_failure(r.val)), Len(rs) + 1, Undefined,
                    <<Call(mapper, c.val)>>)
    ELSE Outcome(h, <<>>, Append(rs, Result_success(rs[i].successValue)), Len(rs) + 1,
                 Undefined, <<>>)

\* mutant: the isSuccess() guard is missing
Result_recover_unguarded(h, rs, i, recoverer) ==
  LET c == structuredClone(h, rs[i].failureValue)
      r == Apply(recoverer, c.heap, c.val)
  IN Outcome(r.heap, <<>>, Append(rs, Result_success(r.val)), Len(rs) + 1, Undefined,
             <<Call(recoverer, c.val)>>)

Result_recover(h, rs, i, recoverer) ==
  IF Result_isSuccess(rs[i])
    THEN Outcome(h, <<>>, rs, i, Undefined, <<>>)
    ELSE LET c == structuredClone(h, rs[i].failureValue)
             r == Apply(recoverer, c.heap, c.val)
         IN Outcome(r.heap, <<>>, Append(rs, Result_success(r.val)), Len(rs) + 1, Undefined,
                    <<Call(recoverer, c.val)>>)

\* validate(predicate, failureValueIfInvalid): a Failure is returned as it is;
\* a Success is returned as it is when predicate(clone of the payload) holds,
\* and otherwise a Failure holding failureValueIfInvalid is returned
Result_validate(h, rs, i, predicate, failureValueIfInvalid) ==
  IF Result_isFailure(rs[i])
    THEN Outcome(h, <<>>, rs, i, Undefined, <<>>)
    ELSE LET c == structuredClone(h, rs[i].successValue)
         IN IF Test(predicate, c.val)
              THEN Outcome(c.heap, <<>>, rs, i, Undefined, <<Call(predicate, c.val)>>)
              ELSE Outcome(c.heap, <<>>, Append(rs, Result_failure(failureValueIfInvalid)),
                           Len(rs) + 1, Undefined, <<Call(predicate, c.val)>>)

\* mutant: value() reads the success slot only
Result_value_successOnly(h, rs, i) == Outcome(h, <<>>, rs, 0, rs[i].successValue, <<>>)

Result_value(h, rs, i) ==
  Outcome(h, <<>>, rs, 0,
          IF Result_isSuccess(rs[i]) THEN rs[i].successValue ELSE rs[i].failureValue,
          <<>>)

Result_valueOr(h, rs, i, value) ==
  Outcome(h, <<>>, rs, 0,
          IF Result_isSuccess(rs[i]) THEN rs[i].successValue ELSE value,
          <<>>)

\* fromNullish (spec-modelled)
Result_fromNullish(h, value, failureValueIfNullish) ==
  IF value = Null \/ value = Undefined
    THEN Made(h, Result_failure(failureValueIfNullish), FALSE)
    ELSE Made(h, Result_success(value), FALSE)

\* fromValidator (spec-modelled)
Result_fromValidator(h, predicate, candidate, failureValueIfInvalid) ==
  IF Test(predicate, candidate)
    THEN Made(h, Result_success(candidate), FALSE)
    ELSE Made(h, Result_failure(failureValueIfInvalid), FALSE)

\* fromError (spec-modelled)
Result_fromError(h, thunk, failureValueIfThrown) ==
  IF Throws(thunk)
    THEN Made(h, Result_failure(failureValueIfThrown), FALSE)
    ELSE LET r == Apply(thunk, h, Undefined)
         IN Made(r.heap, Result_success(r.val), FALSE)

\* fn is called without arguments
Result_valueOrCompute(h, rs, i, fn) ==
  IF Result_isSuccess(rs[i])
    THEN Outcome(h, <<>>, rs, 0, rs[i].successValue, <<>>)
    ELSE LET r == Apply(fn, h, Undefined)
         IN Outcome(r.heap, <<>>, rs, 0, r.val, <<Call(fn, Undefined)>>)

\* structuredClone(this): a copy of both slots
Result_clone(h, r) ==
  LET s == structuredClone(h, r.successValue)
      f == structuredClone(s.heap, r.failureValue)
  IN [heap |-> f.heap, val |-> [successValue |-> s.val, failureValue |-> f.val]]

\* fn receives the receiver itself
Result_debug(h, rs, i, shouldRun, fn) ==
  IF ShouldRunFn(shouldRun)
    THEN Outcome(ApplyOnResult(fn, h, rs[i]), <<>>, rs, i, Undefined, <<Call(fn, rs[i])>>)
    ELSE Outcome(h, <<>>, rs, i, Undefined, <<>>)

Result_runEffect(h, rs, i, effect) ==
  LET c == Result_clone(h, rs[i])
  IN Outcome(ApplyOnResult(effect, c.heap, c.val), <<>>, rs, i, Undefined,
             <<Call(effect, c.val)>>)

Result_runEffectWhenFailure(h, rs, i, effect) ==
  IF Result_isFailure(rs[i])
    THEN LET c == structuredClone(h, rs[i].failureValue)
         IN Outcome(Apply(effect, c.heap, c.val).heap, <<>>, rs, i, Undefined,
                    <<Call(effect, c.val)>>)
    ELSE Outcome(h, <<>>, rs, i, Undefined, <<>>)

Result_runEffectWhenSuccess(h, rs, i, effect) ==
  IF Result_isSuccess(rs[i])
    THEN LET c == structuredClone(h, rs[i].successValue)
         IN Outcome(Apply(effect, c.heap, c.val).heap, <<>>, rs, i, Undefined,
                    <<Call(effect, c.val)>>)
    ELSE Outcome(h, <<>>, rs, i, Undefined, <<>>)

\* reducer(context, newResult): the reducer receives a new Result built from a
\* copy of the payload; a reducer called for its effect returns undefined
Result_reduce(h, rs, i, reducer) ==
  LET c == IF Result_isSuccess(rs[i])
             THEN structuredClone(h, rs[i].successValue)
             ELSE structuredClone(h, rs[i].failureValue)
      newResult == IF Result_isSuccess(rs[i])
                     THEN Result_success(c.val) ELSE Result_failure(c.val)
  IN Outcome(ApplyOnResult(reducer, c.heap, newResult), <<>>, rs, 0, Undefined,
             <<Call(reducer, newResult)>>)

\* valueOrError (spec-modelled): as Option.valueOrError, on a Failure
Result_valueOrError(h, rs, i, fn) ==
  IF Result_isFailure(rs[i])
    THEN LET c == Result_clone(h, rs[i])
         IN IF Throws(fn)
              THEN Escaped(Outcome(c.heap, <<>>, rs, 0, Undefined, <<Call(fn, c.val)>>), TRUE)
              ELSE LET h1 == ApplyOnResult(fn, c.heap, c.val)
                       v == structuredClone(h1, rs[i].successValue)
                   IN Escaped(Outcome(v.heap, <<>>, rs, 0, v.val, <<Call(fn, c.val)>>), FALSE)
    ELSE LET v == structuredClone(h, rs[i].successValue)
         IN Escaped(Outcome(v.heap, <<>>, rs, 0, v.val, <<>>), FALSE)

\* orError (spec-modelled): as Option.orError, on a Failure
Result_orError(h, rs, i, fn) ==
  IF Result_isFailure(rs[i])
    THEN LET c == Result_clone(h, rs[i])
         IN IF Throws(fn)
              THEN Escaped(Outcome(c.heap, <<>>, rs, 0, Undefined, <<Call(fn, c.val)>>), TRUE)
              ELSE Escaped(Outcome(ApplyOnResult(fn, c.heap, c.val), <<>>, rs, i, Undefined,
                                   <<Call(fn, c.val)>>), FALSE)
    ELSE Escaped(Outcome(h, <<>>, rs, i, Undefined, <<>>), FALSE)

(* ------------------- the Success, Failure and Some classes -------------- *)

\* An instance of one of the variant classes: its class and its public field
\* `value`.  Instances live in `variants`.
Variant(tag, value) == [tag |-> tag, value |-> value]

\* new Success(value): this.value = structuredClone(value)
Success_new(h, value) ==
  LET c == structuredClone(h, value)
  IN [heap |-> c.heap, val |-> Variant("Success", c.val)]

\* new Failure(value): this.value = structuredClone(value)
Failure_new(h, value) ==
  LET c == structuredClone(h, value)
  IN [heap |-> c.heap, val |-> Variant("Failure", c.val)]

\* new Some(value): this.value = value
Some_new(h, value) == [heap |-> h, val |-> Variant("Some", value)]

\* what an instance method of a variant class returns (the instance
\* variants[ret]) and does
VOutcome(h, vs, ret, calls) == [heap |-> h, variants |-> vs, ret |-> ret, calls |-> calls]

\* new Success(mapper(structuredClone(this.value)))
Success_map(h, vs, i, mapper) ==
  LET c == structuredClone(h, vs[i].value)
      r == Apply(mapper, c.heap, c.val)
      n == Success_new(r.heap, r.val)
  IN VOutcome(n.heap, Append(vs, n.val), Len(vs) + 1, <<Call(mapper, c.val)>>)

Success_mapFailure(h, vs, i, mapper) == VOutcome(h, vs, i, <<>>)

Success_recover(h, vs, i, recoverer) == VOutcome(h, vs, i, <<>>)

Failure_map(h, vs, i, mapper) == VOutcome(h, vs, i, <<>>)

\* mutant: `return this`, as in the Success class
Failure_mapFailure_noop(h, vs, i, mapper) == VOutcome(h, vs, i, <<>>)

\* new Failure(mapper(this.value))
Failure_mapFailure(h, vs, i, mapper) ==
  LET r == Apply(mapper, h, vs[i].value)
      n == Failure_new(r.heap, r.val)
  IN VOutcome(n.heap, Append(vs, n.val), Len(vs) + 1, <<Call(mapper, vs[i].value)>>)

\* new Success(recoverer(structuredClone(this.value)))
Failure_recover(h, vs, i, recoverer) ==
  LET c == structuredClone(h, vs[i].value)
      r == Apply(recoverer, c.heap, c.val)
      n == Success_new(r.heap, r.val)
  IN VOutcome(n.heap, Append(vs, n.val), Len(vs) + 1, <<Call(recoverer, c.val)>>)

\* The Success and Failure subclasses of the abstract class Result keep the
\* constructor's argument as it is: this.value = value.
Result_Success_new(h, value) == [heap |-> h, val |-> Variant("Result.Success", value)]

Result_Failure_new(h, value) == [heap |-> h, val |-> Variant("Result.Failure", value)]

\* Success inherits map: new Success(mapper(structuredClone(this.value)))
Result_Success_map(h, vs, i, mapper) ==
  LET c == structuredClone(h, vs[i].value)
      r == Apply(mapper, c.heap, c.val)
      n == Result_Success_new(r.heap, r.val)
  IN VOutcome(n.heap, Append(vs, n.val), Len(vs) + 1, <<Call(mapper, c.val)>>)

Result_Success_mapFailure(h, vs, i, mapper) == VOutcome(h, vs, i, <<>>)

Result_Success_recover(h, vs, i, recoverer) == VOutcome(h, vs, i, <<>>)

Result_Failure_map(h, vs, i, mapper) == VOutcome(h, vs, i, <<>>)

\* Failure inherits mapFailure: new Failure(mapper(this.value))
Result_Failure_mapFailure(h, vs, i, mapper) ==
  LET r == Apply(mapper, h, vs[i].value)
      n == Result_Failure_new(r.heap, r.val)
  IN VOutcome(n.heap, Append(vs, n.val), Len(vs) + 1, <<Call(mapper, vs[i].value)>>)

\* Failure inherits recover: new Success(recoverer(this.value))
Result_Failure_recover(h, vs, i, recoverer) ==
  LET r == Apply(recoverer, h, vs[i].value)
      n == Result_Success_new(r.heap, r.val)
  IN VOutcome(n.heap, Append(vs, n.val), Len(vs) + 1, <<Call(recoverer, vs[i].value)>>)

\* A promise: pending, fulfilled or rejected.  `value` is the instance it is
\* fulfilled with (for a pending promise of a mapper, the instance its timer
\* will deliver); `awaits` is the promise whose settlement the async function
\* behind this promise waits for, 0 if there is none.  Promises live in
\* `promises`.
Promise(state, value, awaits) == [state |-> state, value |-> value, awaits |-> awaits]

\* the mappers handed to mapAsync; make is the factory of the receiver's class:
\* resolved = (v) => Promise.resolve(make(v + 1))
\* deferred = (v) => { const r = make(v + 1)
\*                     return new Promise((res, rej) => setTimeout(...)) }
AsyncFns == {"resolved", "deferred"}

ApplyAsync(f, h, vs, ps, tag, v) ==
  LET r == Apply("inc", h, v)
      n == IF tag = "Some" THEN Some_new(r.heap, r.val) ELSE Success_new(r.heap, r.val)
  IN [heap |-> n.heap, variants |-> Append(vs, n.val),
      promises |-> Append(ps, Promise(IF f = "resolved" THEN "fulfilled" ELSE "pending",
                                      Len(vs) + 1, 0)),
      ret |-> Len(ps) + 1]

\* what mapAsync returns (the promise promises[ret]) and does
AsyncOutcome(h, vs, ps, ret, calls) ==
  [heap |-> h, variants |-> vs, promises |-> ps, ret |-> ret, calls |-> calls]

\* return await mapper(structuredClone(this.value)): the mapper runs before
\* mapAsync returns, the rest of the function after the mapper's promise has
\* settled
Success_mapAsync(h, vs, ps, i, mapper) ==
  LET c == structuredClone(h, vs[i].value)
      m == ApplyAsync(mapper, c.heap, vs, ps, vs[i].tag, c.val)
  IN AsyncOutcome(m.heap, m.variants, Append(m.promises, Promise("pending", 0, m.ret)),
                  Len(m.promises) + 1, <<Call(mapper, c.val)>>)

\* the same function body in the Some class
Some_mapAsync(h, vs, ps, i, mapper) ==
  LET c == structuredClone(h, vs[i].value)
      m == ApplyAsync(mapper, c.heap, vs, ps, vs[i].tag, c.val)
  IN AsyncOutcome(m.heap, m.variants, Append(m.promises, Promise("pending", 0, m.ret)),
                  Len(m.promises) + 1, <<Call(mapper, c.val)>>)

\* mutant: the Failure class inherits the mapAsync of Success
Failure_mapAsync_inherited(h, vs, ps, i, mapper) ==
  LET c == structuredClone(h, vs[i].value)
      m == ApplyAsync(mapper, c.heap, vs, ps, vs[i].tag, c.val)
  IN AsyncOutcome(m.heap, m.variants, Append(m.promises, Promise("pending", 0, m.ret)),
                  Len(m.promises) + 1, <<Call(mapper, c.val)>>)

\* async mapAsync() { return this }
Failure_mapAsync(h, vs, ps, i, mapper) ==
  AsyncOutcome(h, vs, Append(ps, Promise("fulfilled", i, 0)), Len(ps) + 1, <<>>)

(* ------------------------- the client program -------------------------- *)

Init ==
  /\ heap = <<>>
  /\ options = <<>>
  /\ results = <<>>
  /\ variants = <<>>
  /\ promises = <<>>
  /\ last = [op |-> "init", recv |-> 0, arg |-> Undefined, arg2 |-> Undefined, fn |-> "",
             ret |-> 0, threw |-> FALSE,
             val |-> Undefined, calls |-> <<>>]

Fits(h, os, rs) == Len(h) <= MaxHeap /\ Len(os) + Len(rs) <= MaxInst

\* const obj = { number: 0 }
NewObject ==
  /\ Len(heap) < MaxHeap
  /\ heap' = Append(heap, 0)
  /\ last' = [op |-> "new Object", recv |-> 0, arg |-> Undefined, arg2 |-> Undefined,
              fn |-> "", ret |-> 0, threw |-> FALSE,
              val |-> Obj(Len(heap) + 1), calls |-> <<>>]
  /\ UNCHANGED <<options, results, variants, promises>>

\* a static factory of Option returned the instance o (Option and Result share
\* no state: a run of the client works with one of the two classes)
OptionCreated(op, v, o) ==
  /\ results = <<>>
  /\ Fits(heap, Append(options, o), results)
  /\ options' = Append(options, o)
  /\ last' = [op |-> op, recv |-> 0, arg |-> v, arg2 |-> Undefined, fn |-> "",
              ret |-> Len(options) + 1, threw |-> FALSE,
              val |-> Undefined, calls |-> <<>>]
  /\ UNCHANGED <<heap, results, variants, promises>>

From(v) == OptionCreated("Option.from", v, Option_from(v))

Some(v) == OptionCreated("Option.some", v, Option_some(v))

None == OptionCreated("Option.none", Undefined, Option_none)

\* an instance method of Option, called on options[i], had the outcome out
OptionCalled(op, i, v, f, out) ==
  /\ Fits(out.heap, out.options, results)
  /\ heap' = out.heap
  /\ options' = out.options
  /\ last' = [op |-> op, recv |-> i, arg |-> v, arg2 |-> Undefined, fn |-> f,
              ret |-> out.ret, threw |-> FALSE,
              val |-> out.val, calls |-> out.calls]
  /\ UNCHANGED <<results, variants, promises>>

Map(i, f) == OptionCalled("Option.map", i, Undefined, f, Option_map(heap, options, i, f))

Recover(i, f) ==
  OptionCalled("Option.recover", i, Undefined, f, Option_recover(heap, options, i, f))

ValueOr(i, v) ==
  OptionCalled("Option.valueOr", i, v, "", Option_valueOr(heap, options, i, v))

\* a static factory of Result returned the instance r
ResultCreated(op, v, r) ==
  /\ options = <<>>
  /\ Fits(heap, options, Append(results, r))
  /\ results' = Append(results, r)
  /\ last' = [op |-> op, recv |-> 0, arg |-> v, arg2 |-> Undefined, fn |-> "",
              ret |-> Len(results) + 1, threw |-> FALSE,
              val |-> Undefined, calls |-> <<>>]
  /\ UNCHANGED <<heap, options, variants, promises>>

Success(v) == ResultCreated("Result.success", v, Result_success(v))

Failure(v) == ResultCreated("Result.failure", v, Result_failure(v))

\* an instance method of Result, called on results[i], had the outcome out
ResultCalled(op, i, v, f, out) ==
  /\ Fits(out.heap, options, out.results)
  /\ heap' = out.heap
  /\ results' = out.results
  /\ last' = [op |-> op, recv |-> i, arg |-> v, arg2 |-> Undefined, fn |-> f,
              ret |-> out.ret, threw |-> FALSE,
              val |-> out.val, calls |-> out.calls]
  /\ UNCHANGED <<options, variants, promises>>

RMap(i, f) == ResultCalled("Result.map", i, Undefined, f, Result_map(heap, results, i, f))

RMapFailure(i, f) ==
  ResultCalled("Result.mapFailure", i, Undefined, f, Result_mapFailure(heap, results, i, f))

RRecover(i, f) ==
  ResultCalled("Result.recover", i, Undefined, f, Result_recover(heap, results, i, f))

RValidate(i, p, v) ==
  ResultCalled("Result.validate", i, v, p, Result_validate(heap, results, i, p, v))

RValue(i) == ResultCalled("Result.value", i, Undefined, "", Result_value(heap, results, i))

Next ==
  \/ NewObject
  \/ \E v \in Values(heap) : From(v)
  \/ \E v \in Values(heap) : Some(v)
  \/ None
  \/ \E i \in 1..Len(options), f \in Fns : Map(i, f)
  \/ \E i \in 1..Len(options), f \in Fns : Recover(i, f)
  \/ \E i \in 1..Len(options), v \in Values(heap) : ValueOr(i, v)
  \/ \E v \in ResultValues(heap) : Success(v)
  \/ \E v \in ResultValues(heap) : Failure(v)
  \/ \E i \in 1..Len(results), f \in Fns : RMap(i, f)
  \/ \E i \in 1..Len(results), f \in Fns : RMapFailure(i, f)
  \/ \E i \in 1..Len(results), f \in Fns : RRecover(i, f)
  \/ \E i \in 1..Len(results), p \in Predicates, v \in ResultValues(heap) : RValidate(i, p, v)
  \/ \E i \in 1..Len(results) : RValue(i)

Spec == Init /\ [][Next]_vars

(* ----------------------- the factories on their own -------------------- *)

\* a static factory of Option, called with the function f, had the outcome out
OptionMade(op, f, out) ==
  /\ results = <<>>
  /\ Fits(out.heap, Append(options, out.instance), results)
  /\ heap' = out.heap
  /\ options' = IF out.threw THEN options ELSE Append(options, out.instance)
  /\ last' = [op |-> op, recv |-> 0, arg |-> Undefined, arg2 |-> Undefined, fn |-> f,
              ret |-> IF out.threw THEN 0 ELSE Len(options) + 1, threw |-> out.threw,
              val |-> Undefined, calls |-> <<>>]
  /\ UNCHANGED <<results, variants, promises>>

FromError(f) == OptionMade("Option.fromError", f, Option_fromError(heap, f))

\* a static factory of Result, called with the function f and the values v and
\* v2, had the outcome out
ResultMade(op, f, v, v2, out) ==
  /\ options = <<>>
  /\ Fits(out.heap, options, Append(results, out.instance))
  /\ heap' = out.heap
  /\ results' = IF out.threw THEN results ELSE Append(results, out.instance)
  /\ last' = [op |-> op, recv |-> 0, arg |-> v, arg2 |-> v2, fn |-> f,
              ret |-> IF out.threw THEN 0 ELSE Len(results) + 1, threw |-> out.threw,
              val |-> Undefined, calls |-> <<>>]
  /\ UNCHANGED <<options, variants, promises>>

RFromNullish(v, v2) ==
  ResultMade("Result.fromNullish", "", v, v2, Result_fromNullish(heap, v, v2))

RFromValidator(p, v, v2) ==
  ResultMade("Result.fromValidator", p, v, v2, Result_fromValidator(heap, p, v, v2))

RFromError(f, v2) ==
  ResultMade("Result.fromError", f, Undefined, v2, Result_fromError(heap, f, v2))

NextFactories ==
  \/ NewObject
  \/ \E v \in Values(heap) : From(v)
  \/ \E v \in Values(heap) : Some(v)
  \/ None
  \/ \E f \in Thunks : FromError(f)
  \/ \E v \in ResultValues(heap) : Success(v)
  \/ \E v \in ResultValues(heap) : Failure(v)
  \/ \E v, v2 \in ResultValues(heap) : RFromNullish(v, v2)
  \/ \E p \in Predicates, v, v2 \in ResultValues(heap) : RFromValidator(p, v, v2)
  \/ \E f \in Thunks, v2 \in ResultValues(heap) : RFromError(f, v2)

SpecFactories == Init /\ [][NextFactories]_vars

(* ------------------ extraction and the caller's references ------------ *)

ValueOrUndefined(i) ==
  OptionCalled("Option.valueOrUndefined", i, Undefined, "",
               Option_valueOrUndefined(heap, options, i))

ValueOrCompute(i, f) ==
  OptionCalled("Option.valueOrCompute", i, Undefined, f,
               Option_valueOrCompute(heap, options, i, f))

RValueOr(i, v) ==
  ResultCalled("Result.valueOr", i, v, "", Result_valueOr(heap, results, i, v))

RValueOrCompute(i, f) ==
  ResultCalled("Result.valueOrCompute", i, Undefined, f,
               Result_valueOrCompute(heap, results, i, f))

\* the caller writes to the object ref; `fn` keeps the call that handed ref
\* over and `recv` the instance of that call
Mutated(ref, instance) ==
  /\ ref.k = "object"
  /\ heap' = Mutate(heap, ref)
  /\ last' = [op |-> "mutate", recv |-> instance, arg |-> ref, arg2 |-> Undefined,
              fn |-> last.op, ret |-> 0, threw |-> FALSE, val |-> Undefined,
              calls |-> <<>>]
  /\ UNCHANGED <<options, results, variants, promises>>

\* the caller writes to the object the last instance method returned
MutateReturned == last.recv > 0 /\ last.op # "mutate" /\ Mutated(last.val, last.recv)

\* the caller writes to the object it passed to the last factory
MutateArgument == last.recv = 0 /\ last.ret > 0 /\ Mutated(last.arg, last.ret)

\* the values of a caller that works with composite objects: the objects, and
\* null for the instances without one
Composites(h) == {Null} \cup {Obj(a) : a \in 1..Len(h)}

NextCopy ==
  \/ NewObject
  \/ \E v \in Composites(heap) : From(v)
  \/ \E v \in Composites(heap) : Some(v)
  \/ \E i \in 1..Len(options), v \in Composites(heap) : ValueOr(i, v)
  \/ \E i \in 1..Len(options) : ValueOrUndefined(i)
  \/ \E i \in 1..Len(options), f \in Fns : ValueOrCompute(i, f)
  \/ \E v \in Composites(heap) : Success(v)
  \/ \E v \in Composites(heap) : Failure(v)
  \/ \E i \in 1..Len(results) : RValue(i)
  \/ \E i \in 1..Len(results), v \in Composites(heap) : RValueOr(i, v)
  \/ \E i \in 1..Len(results), f \in Fns : RValueOrCompute(i, f)
  \/ MutateReturned
  \/ MutateArgument

SpecCopy == Init /\ [][NextCopy]_vars

(* ------------------------- the side-effect operations ----------------- *)

Inspect(i, c, f) ==
  OptionCalled("Option.inspect", i, c, f, Option_inspect(heap, options, i, c, f))

RunEffect(i, f) ==
  OptionCalled("Option.runEffect", i, Undefined, f, Option_runEffect(heap, options, i, f))

RunEffectWhenNone(i, f) ==
  OptionCalled("Option.runEffectWhenNone", i, Undefined, f,
               Option_runEffectWhenNone(heap, options, i, f))

RunEffectWhenSome(i, f) ==
  OptionCalled("Option.runEffectWhenSome", i, Undefined, f,
               Option_runEffectWhenSome(heap, options, i, f))

RDebug(i, c, f) ==
  ResultCalled("Result.debug", i, c, f, Result_debug(heap, results, i, c, f))

RRunEffect(i, f) ==
  ResultCalled("Result.runEffect", i, Undefined, f, Result_runEffect(heap, results, i, f))

RRunEffectWhenFailure(i, f) ==
  ResultCalled("Result.runEffectWhenFailure", i, Undefined, f,
               Result_runEffectWhenFailure(heap, results, i, f))

RRunEffectWhenSuccess(i, f) ==
  ResultCalled("Result.runEffectWhenSuccess", i, Undefined, f,
               Result_runEffectWhenSuccess(heap, results, i, f))

Reduce(i, f) ==
  OptionCalled("Option.reduce", i, Undefined, f, Option_reduce(heap, options, i, f))

Validate(i, p) ==
  OptionCalled("Option.validate", i, Undefined, p, Option_validate(heap, options, i, p))

RReduce(i, f) ==
  ResultCalled("Result.reduce", i, Undefined, f, Result_reduce(heap, results, i, f))

\* the client hands callbacks that write to what they receive to the
\* side-effect operations and to the mapping operations
NextEffects ==
  \/ NewObject
  \/ \E v \in Composites(heap) : Some(v)
  \/ \E i \in 1..Len(options), f \in Effects : Map(i, f)
  \/ \E i \in 1..Len(options), c \in Conditions, f \in Effects : Inspect(i, c, f)
  \/ \E i \in 1..Len(options), f \in Effects : RunEffect(i, f)
  \/ \E i \in 1..Len(options), f \in Effects : RunEffectWhenNone(i, f)
  \/ \E i \in 1..Len(options), f \in Effects : RunEffectWhenSome(i, f)
  \/ \E i \in 1..Len(options), f \in Effects : Reduce(i, f)
  \/ \E i \in 1..Len(options), p \in Predicates : Validate(i, p)
  \/ \E i \in 1..Len(options) : ValueOrUndefined(i)
  \/ \E v \in Composites(heap) : Success(v)
  \/ \E v \in Composites(heap) : Failure(v)
  \/ \E i \in 1..Len(results), f \in Effects : RMap(i, f)
  \/ \E i \in 1..Len(results), f \in Effects : RMapFailure(i, f)
  \/ \E i \in 1..Len(results), f \in Effects : RRecover(i, f)
  \/ \E i \in 1..Len(results), c \in Conditions, f \in Effects : RDebug(i, c, f)
  \/ \E i \in 1..Len(results), f \in Effects : RRunEffect(i, f)
  \/ \E i \in 1..Len(results), f \in Effects : RRunEffectWhenFailure(i, f)
  \/ \E i \in 1..Len(results), f \in Effects : RRunEffectWhenSuccess(i, f)
  \/ \E i \in 1..Len(results), f \in Effects : RReduce(i, f)
  \/ \E i \in 1..Len(results) : RValue(i)

SpecEffects == Init /\ [][NextEffects]_vars

(* ------------------------------ extraction ---------------------------- *)

\* an instance method of Option that an exception may leave, called on
\* options[i] with the handler f, ended as res says
OptionEscape(op, i, f, res) ==
  /\ Fits(res.out.heap, res.out.options, results)
  /\ heap' = res.out.heap
  /\ options' = res.out.options
  /\ last' = [op |-> op, recv |-> i, arg |-> Undefined, arg2 |-> Undefined, fn |-> f,
              ret |-> IF res.threw THEN 0 ELSE res.out.ret, threw |-> res.threw,
              val |-> IF res.threw THEN Undefined ELSE res.out.val,
              calls |-> res.out.calls]
  /\ UNCHANGED <<results, variants, promises>>

ValueOrError(i, f) ==
  OptionEscape("Option.valueOrError", i, f, Option_valueOrError(heap, options, i, f))

OrError(i, f) == OptionEscape("Option.orError", i, f, Option_orError(heap, options, i, f))

\* the same for an instance method of Result
ResultEscape(op, i, f, res) ==
  /\ Fits(res.out.heap, options, res.out.results)
  /\ heap' = res.out.heap
  /\ results' = res.out.results
  /\ last' = [op |-> op, recv |-> i, arg |-> Undefined, arg2 |-> Undefined, fn |-> f,
              ret |-> IF res.threw THEN 0 ELSE res.out.ret, threw |-> res.threw,
              val |-> IF res.threw THEN Undefined ELSE res.out.val,
              calls |-> res.out.calls]
  /\ UNCHANGED <<options, variants, promises>>

RValueOrError(i, f) ==
  ResultEscape("Result.valueOrError", i, f, Result_valueOrError(heap, results, i, f))

ROrError(i, f) ==
  ResultEscape("Result.orError", i, f, Result_orError(heap, results, i, f))

\* the client creates instances and takes their values out
NextExtract ==
  \/ NewObject
  \/ \E v \in Values(heap) : Some(v)
  \/ \E i \in 1..Len(options), v \in Values(heap) : ValueOr(i, v)
  \/ \E i \in 1..Len(options), f \in Fns : ValueOrCompute(i, f)
  \/ \E i \in 1..Len(options), f \in Handlers : ValueOrError(i, f)
  \/ \E i \in 1..Len(options), f \in Handlers : OrError(i, f)
  \/ \E v \in ResultValues(heap) : Success(v)
  \/ \E v \in ResultValues(heap) : Failure(v)
  \/ \E i \in 1..Len(results), v \in ResultValues(heap) : RValueOr(i, v)
  \/ \E i \in 1..Len(results), f \in Fns : RValueOrCompute(i, f)
  \/ \E i \in 1..Len(results), f \in Handlers : RValueOrError(i, f)
  \/ \E i \in 1..Len(results), f \in Handlers : ROrError(i, f)

SpecExtract == Init /\ [][NextExtract]_vars

(* --------------------------- the ways to an Option ---------------------- *)

\* the client makes Options in every way the class offers
NextOption ==
  \/ NewObject
  \/ \E v \in Values(heap) : From(v)
  \/ \E v \in Values(heap) : Some(v)
  \/ None
  \/ \E f \in Thunks : FromError(f)
  \/ \E i \in 1..Len(options), f \in Fns : Map(i, f)
  \/ \E i \in 1..Len(options), f \in Fns : Recover(i, f)
  \/ \E i \in 1..Len(options), p \in Predicates : Validate(i, p)

SpecOption == Init /\ [][NextOption]_vars

(* ----------------------------- asynchronous map ------------------------ *)

\* promises a run creates
MaxPromises == MaxInst

FitsAsync(h, vs, ps) ==
  Len(h) <= MaxHeap /\ Len(vs) <= MaxInst /\ Len(ps) <= MaxPromises

\* the payloads of the run: 0 and the objects of the heap
Payloads(h) == {Num(0)} \cup {Obj(n) : n \in 1..Len(h)}

\* a factory of a variant class returned the instance made.val
VariantCreated(op, v, made) ==
  /\ FitsAsync(made.heap, Append(variants, made.val), promises)
  /\ heap' = made.heap
  /\ variants' = Append(variants, made.val)
  /\ last' = [op |-> op, recv |-> 0, arg |-> v, arg2 |-> Undefined, fn |-> "",
              ret |-> Len(variants) + 1, threw |-> FALSE,
              val |-> Undefined, calls |-> <<>>]
  /\ UNCHANGED <<options, results, promises>>

\* success(v), failure(v), some(v)
VSuccess(v) == VariantCreated("success", v, Success_new(heap, v))

VFailure(v) == VariantCreated("failure", v, Failure_new(heap, v))

VSome(v) == VariantCreated("some", v, Some_new(heap, v))

\* variants[i].mapAsync(f), by the class of variants[i]
MapAsync(i, f) ==
  LET op == variants[i].tag \o ".mapAsync"
      out == CASE variants[i].tag = "Success" -> Success_mapAsync(heap, variants, promises, i, f)
               [] variants[i].tag = "Some" -> Some_mapAsync(heap, variants, promises, i, f)
               [] variants[i].tag = "Failure" -> Failure_mapAsync(heap, variants, promises, i, f)
  IN /\ FitsAsync(out.heap, out.variants, out.promises)
     /\ heap' = out.heap
     /\ variants' = out.variants
     /\ promises' = out.promises
     /\ last' = [op |-> op, recv |-> i, arg |-> Undefined, arg2 |-> Undefined, fn |-> f,
                 ret |-> out.ret, threw |-> FALSE, val |-> Undefined, calls |-> out.calls]
     /\ UNCHANGED <<options, results>>

\* an event of the run loop about the promise promises[p]
Settled(op, p, state, value) ==
  /\ promises' = [promises EXCEPT ![p] = Promise(state, value, @.awaits)]
  /\ last' = [op |-> op, recv |-> p, arg |-> Undefined, arg2 |-> Undefined, fn |-> "",
              ret |-> 0, threw |-> FALSE, val |-> Undefined, calls |-> <<>>]
  /\ UNCHANGED <<heap, options, results, variants>>

\* the timer of a deferred mapper fires and fulfils the mapper's promise
TimerResolves(p) ==
  /\ promises[p].state = "pending"
  /\ promises[p].awaits = 0
  /\ Settled("resolve", p, "fulfilled", promises[p].value)

\* the timer of a deferred mapper fires and rejects the mapper's promise
TimerRejects(p) ==
  /\ promises[p].state = "pending"
  /\ promises[p].awaits = 0
  /\ Settled("reject", p, "rejected", 0)

\* the awaited promise has settled: the rest of mapAsync runs and settles the
\* promise that mapAsync returned in the same way
Resume(q) ==
  /\ promises[q].state = "pending"
  /\ promises[q].awaits # 0
  /\ promises[promises[q].awaits].state # "pending"
  /\ Settled("resume", q, promises[promises[q].awaits].state,
             promises[promises[q].awaits].value)

\* the client of the variant classes maps asynchronously
NextAsync ==
  \/ NewObject
  \/ \E v \in Payloads(heap) : VSuccess(v)
  \/ \E v \in Payloads(heap) : VFailure(v)
  \/ \E v \in Payloads(heap) : VSome(v)
  \/ \E i \in 1..Len(variants), f \in AsyncFns : MapAsync(i, f)
  \/ \E p \in 1..Len(promises) : TimerResolves(p)
  \/ \E p \in 1..Len(promises) : TimerRejects(p)
  \/ \E q \in 1..Len(promises) : Resume(q)

SpecAsync == Init /\ [][NextAsync]_vars

\* the run loop runs every continuation whose awaited promise has settled
SpecAsyncFair == SpecAsync /\ WF_vars(\E q \in 1..Len(promises) : Resume(q))

(* ------------------------- the designs side by side -------------------- *)

\* The same chain of calls runs on the Result class with the success slot
\* (instances in `results`), on the subclasses of the abstract Result and on
\* the standalone Success and Failure classes (instances in `variants`).  The
\* instance a chain has reached is the last one its design created.
SubclassTags == {"Result.Success", "Result.Failure"}
StandaloneTags == {"Success", "Failure"}

Current(vs, tags) ==
  CHOOSE i \in 1..Len(vs) : vs[i].tag \in tags /\ \A j \in (i + 1)..Len(vs) : vs[j].tag \notin tags

\* steps of a chain
MaxChain == MaxInst

FitsDesigns(h, rs, vs) ==
  /\ Len(h) <= MaxHeap + 4 * MaxChain
  /\ Len(rs) <= 1 + MaxChain
  /\ Len(vs) <= 2 * (1 + MaxChain)

\* payloads and callbacks of a chain in which nothing is undefined
DefinedValues(h) == ResultValues(h) \ {Undefined}
DefinedFns == {"toNull", "inc", "id", "toObj", "write"}

\* the three designs make a Success (isSuccessParam) or a Failure of v
Begin(isSuccessParam, v) ==
  LET a == IF isSuccessParam THEN Result_Success_new(heap, v) ELSE Result_Failure_new(heap, v)
      c == IF isSuccessParam THEN Success_new(a.heap, v) ELSE Failure_new(a.heap, v)
  IN /\ results = <<>>
     /\ variants = <<>>
     /\ heap' = c.heap
     /\ results' = <<Result_new(isSuccessParam, v)>>
     /\ variants' = <<a.val, c.val>>
     /\ last' = [op |-> IF isSuccessParam THEN "success" ELSE "failure", recv |-> 0,
                 arg |-> v, arg2 |-> Undefined, fn |-> "", ret |-> 1, threw |-> FALSE,
                 val |-> Undefined, calls |-> <<>>]
     /\ UNCHANGED <<options, promises>>

\* one step of the chain: r on the Result class, then a on the subclass
\* instance, then c on the standalone instance
Chained(op, f, r, a, c) ==
  /\ FitsDesigns(c.heap, r.results, c.variants)
  /\ heap' = c.heap
  /\ results' = r.results
  /\ variants' = c.variants
  /\ last' = [op |-> op, recv |-> Len(results), arg |-> Undefined, arg2 |-> Undefined,
              fn |-> f, ret |-> r.ret, threw |-> FALSE, val |-> Undefined,
              calls |-> r.calls]
  /\ UNCHANGED <<options, promises>>

ChainMap(f) ==
  /\ results # <<>>
  /\ LET i == Current(variants, SubclassTags)
         j == Current(variants, StandaloneTags)
         r == Result_map(heap, results, Len(results), f)
         a == IF variants[i].tag = "Result.Success"
                THEN Result_Success_map(r.heap, variants, i, f)
                ELSE Result_Failure_map(r.heap, variants, i, f)
         c == IF variants[j].tag = "Success"
                THEN Success_map(a.heap, a.variants, j, f)
                ELSE Failure_map(a.heap, a.variants, j, f)
     IN Chained("chain.map", f, r, a, c)

ChainMapFailure(f) ==
  /\ results # <<>>
  /\ LET i == Current(variants, SubclassTags)
         j == Current(variants, StandaloneTags)
         r == Result_mapFailure(heap, results, Len(results), f)
         a == IF variants[i].tag = "Result.Success"
                THEN Result_Success_mapFailure(r.heap, variants, i, f)
                ELSE Result_Failure_mapFailure(r.heap, variants, i, f)
         c == IF variants[j].tag = "Success"
                THEN Success_mapFailure(a.heap, a.variants, j, f)
                ELSE Failure_mapFailure(a.heap, a.variants, j, f)
     IN Chained("chain.mapFailure", f, r, a, c)

ChainRecover(f) ==
  /\ results # <<>>
  /\ LET i == Current(variants, SubclassTags)
         j == Current(variants, StandaloneTags)
         r == Result_recover(heap, results, Len(results), f)
         a == IF variants[i].tag = "Result.Success"
                THEN Result_Success_recover(r.heap, variants, i, f)
                ELSE Result_Failure_recover(r.heap, variants, i, f)
         c == IF variants[j].tag = "Success"
                THEN Success_recover(a.heap, a.variants, j, f)
                ELSE Failure_recover(a.heap, a.variants, j, f)
     IN Chained("chain.recover", f, r, a, c)

NextDesigns ==
  \/ NewObject
  \/ \E b \in BOOLEAN, v \in DefinedValues(heap) : Begin(b, v)
  \/ \E f \in DefinedFns : ChainMap(f)
  \/ \E f \in DefinedFns : ChainMapFailure(f)
  \/ \E f \in DefinedFns : ChainRecover(f)

SpecDesigns == Init /\ [][NextDesigns]_vars

(* ------------------------------ the claims ----------------------------- *)

\* C1: Option.from(v) is a None (isNone() true, isSome() false) if and only if
\* v is null or undefined; for every other v, the falsy 0, '' and false
\* included, it is a Some and valueOr(fallback) equals v for any fallback.
C1_FromIsNoneIffNullish ==
  last.op = "Option.from" =>
    LET o == options[last.ret]
        v == last.arg
    IN /\ isNone(o) <=> IsNullish(v)
       /\ isSome(o) <=> ~isNone(o)
       /\ ~IsNullish(v) =>
            \A fallback \in Values(heap) :
              LET out == Option_valueOr(heap, options, last.ret, fallback)
              IN DeepEq(out.heap, out.val, heap, v)

C1_Witness ==
  /\ last.op = "Option.from"
  /\ last.arg = Num(0)
  /\ isSome(options[last.ret])

\* C2 as stated: Option.some(value) is a Some wrapping value verbatim for
\* every value, null and undefined included.
C2_SomeIsAlwaysSome ==
  last.op = "Option.some" =>
    LET o == options[last.ret]
    IN isSome(o) /\ ~isNone(o) /\ o.currentValue = last.arg

\* C2 amended: Option.some(value) is a Some wrapping value verbatim for every
\* value other than null and undefined.
C2_SomeOfNonNullishIsSome ==
  (last.op = "Option.some" /\ ~IsNullish(last.arg)) =>
    LET o == options[last.ret]
    IN isSome(o) /\ ~isNone(o) /\ o.currentValue = last.arg

C2_Witness ==
  /\ last.op = "Option.some"
  /\ last.arg \in {Num(0), EmptyString, False}
  /\ isSome(options[last.ret])
  /\ options[last.ret].currentValue = last.arg

\* C3: Option.some(value) called with null or undefined instantiates a None:
\* isNone() is true and isSome() is false on the returned Option.
C3_SomeOfNullishIsNone ==
  (last.op = "Option.some" /\ IsNullish(last.arg)) =>
    LET o == options[last.ret]
    IN isNone(o) /\ ~isSome(o)

C3_Witness ==
  /\ last.op = "Option.some"
  /\ last.arg = Undefined
  /\ isNone(options[last.ret])

\* C4: Result.success(v) is a Success (isSuccess() true, isFailure() false)
\* for every v, null and undefined included, and Result.failure(v) is a
\* Failure (isFailure() true, isSuccess() false) for every v.
C4_FactoriesFixTheVariant ==
  /\ last.op = "Result.success" =>
       (Result_isSuccess(results[last.ret]) /\ ~Result_isFailure(results[last.ret]))
  /\ last.op = "Result.failure" =>
       (Result_isFailure(results[last.ret]) /\ ~Result_isSuccess(results[last.ret]))

\* what the mapper of the last call returns for the payload x
Mapped(x) == Apply(last.fn, heap, x)

\* valueOr(d) of options[i] equals the value r.val of the heap r.heap, for any d
ValueOrIs(h, os, i, r) ==
  \A d \in Values(h) :
    LET out == Option_valueOr(h, os, i, d)
    IN DeepEq(out.heap, out.val, r.heap, r.val)

\* the last call invoked its callback exactly once, on a copy of x
CalledOnceOn(x) ==
  /\ Len(last.calls) = 1
  /\ last.calls[1].fn = last.fn
  /\ DeepEq(heap, last.calls[1].arg, heap, x)

\* C5 as stated: for every Some holding x and every mapper f, map(f) is a
\* Some, map(f).valueOr(d) equals f(x) for any d, and f is applied exactly once.
C5_MapOfSomeIsSome ==
  (last.op = "Option.map" /\ isSome(options[last.recv])) =>
    LET x == options[last.recv].currentValue
    IN /\ isSome(options[last.ret])
       /\ ValueOrIs(heap, options, last.ret, Mapped(x))
       /\ CalledOnceOn(x)

\* C5 amended: for every Some holding x and every mapper f, f is applied
\* exactly once, to a copy of x; when f(x) is neither null nor undefined,
\* map(f) is a Some and map(f).valueOr(d) equals f(x) for any d.
C5_MapOfSomeToNonNullish ==
  (last.op = "Option.map" /\ isSome(options[last.recv])) =>
    LET x == options[last.recv].currentValue
    IN /\ CalledOnceOn(x)
       /\ ~IsNullish(Mapped(x).val) =>
            /\ isSome(options[last.ret])
            /\ ValueOrIs(heap, options, last.ret, Mapped(x))

C5_Witness ==
  /\ last.op = "Option.map"
  /\ last.fn = "inc"
  /\ options[last.recv].currentValue = Num(0)
  /\ options[last.ret].currentValue = Num(1)
  /\ Len(last.calls) = 1

\* C6: map on a None never invokes the mapper and returns a None:
\* none.map(f).isNone() is true and none.map(f).valueOr(d) is d for every f
\* and d, and the same holds for a further map on the None returned.
C6_MapOfNoneIsNone ==
  (last.op = "Option.map" /\ isNone(options[last.recv])) =>
    /\ last.calls = <<>>
    /\ isNone(options[last.ret])
    /\ \A d \in Values(heap) : Option_valueOr(heap, options, last.ret, d).val = d
    /\ \A g \in Fns :
         LET m == Option_map(heap, options, last.ret, g)
         IN /\ m.calls = <<>>
            /\ isNone(m.options[m.ret])
            /\ \A d \in Values(heap) :
                 Option_valueOr(m.heap, m.options, m.ret, d).val = d

C6_Witness ==
  /\ last.op = "Option.map"
  /\ isNone(options[last.recv])
  /\ last.fn = "inc"
  /\ last.ret # last.recv
  /\ isNone(options[last.ret])

\* what the supplier of the last call returns
Supplied == Apply(last.fn, heap, Undefined)

\* a further recover(g) on options[i] invokes no g and yields the value r.val
SecondRecoverIsNoOp(i, r) ==
  \A g \in Fns :
    LET second == Option_recover(heap, options, i, g)
    IN /\ second.calls = <<>>
       /\ ValueOrIs(second.heap, second.options, second.ret, r)

\* C7 as stated: recover on a None returns a Some holding the supplier's
\* result, for every supplier fn: isSome() is true, valueOr(d) equals fn(),
\* and in none.recover(f).recover(g) g is never invoked and the value is f().
C7_RecoverOfNoneIsSome ==
  (last.op = "Option.recover" /\ isNone(options[last.recv])) =>
    /\ isSome(options[last.ret])
    /\ ValueOrIs(heap, options, last.ret, Supplied)
    /\ SecondRecoverIsNoOp(last.ret, Supplied)

\* C7 amended: the same, for every supplier fn whose result is neither null
\* nor undefined.
C7_RecoverOfNoneToNonNullish ==
  (last.op = "Option.recover" /\ isNone(options[last.recv])
     /\ ~IsNullish(Supplied.val)) =>
    /\ isSome(options[last.ret])
    /\ ValueOrIs(heap, options, last.ret, Supplied)
    /\ SecondRecoverIsNoOp(last.ret, Supplied)

C7_Witness ==
  /\ last.op = "Option.recover"
  /\ isNone(options[last.recv])
  /\ last.fn = "toObj"
  /\ isSome(options[last.ret])
  /\ last.calls = <<Call("toObj", Undefined)>>

\* C8: recover on an instance that is already on the good path is a no-op:
\* Option.recover on a Some and Result.recover on a Success return the
\* receiver itself, leave it as it was and never invoke the recovery function.
C8_RecoverOnGoodPathIsNoOp ==
  [][((last'.op = "Option.recover" /\ isSome(options[last'.recv])) =>
        (last'.ret = last'.recv /\ last'.calls = <<>>
           /\ options' = options /\ heap' = heap))
     /\
     ((last'.op = "Result.recover" /\ Result_isSuccess(results[last'.recv])) =>
        (last'.ret = last'.recv /\ last'.calls = <<>>
           /\ results' = results /\ heap' = heap))]_vars

C8_Witness ==
  /\ last.op = "Result.recover"
  /\ Result_isSuccess(results[last.recv])
  /\ last.fn = "inc"
  /\ last.ret = last.recv
  /\ last.calls = <<>>

\* C9: over any chain of Result combinators, map and mapFailure never change
\* the variant (a Success stays a Success under map whatever the mapper
\* returns, a Failure stays a Failure under mapFailure), the only step from
\* Success to Failure is a failed validate, and the only step from Failure to
\* Success is recover.
C9_VariantTransitions ==
  last.op \in {"Result.map", "Result.mapFailure", "Result.recover", "Result.validate"} =>
    LET a == results[last.recv]
        b == results[last.ret]
    IN /\ last.op \in {"Result.map", "Result.mapFailure"} =>
            (Result_isSuccess(a) <=> Result_isSuccess(b))
       /\ (Result_isSuccess(a) /\ Result_isFailure(b)) =>
            (last.op = "Result.validate" /\ ~Test(last.fn, a.successValue))
       /\ (Result_isFailure(a) /\ Result_isSuccess(b)) => last.op = "Result.recover"

\* C10: for every x, f and g, Result.success(x).map(f).mapFailure(g).value()
\* equals f(x), and g is never invoked.
C10_MapFailureAfterSuccessPath ==
  last.op = "Result.success" =>
    \A f \in Fns, g \in Fns :
      LET x == last.arg
          m == Result_map(heap, results, last.ret, f)
          mf == Result_mapFailure(m.heap, m.results, m.ret, g)
          v == Result_value(mf.heap, mf.results, mf.ret)
          fx == Apply(f, heap, x)
      IN /\ mf.calls = <<>>
         /\ DeepEq(v.heap, v.val, fx.heap, fx.val)

\* C11: recover on a Failure gives a Success holding the recoverer's result:
\* after results[i].recover(f) on a Failure with payload e, the returned
\* instance answers isSuccess() with true and valueOr(d) with f(e), for every d.
C11_RecoverOfFailureIsSuccess ==
  (last.op = "Result.recover" /\ Result_isFailure(results[last.recv])) =>
    LET e == results[last.recv].failureValue
        fe == Apply(last.fn, heap, e)
    IN /\ Result_isSuccess(results[last.ret])
       /\ \A d \in ResultValues(heap) :
            DeepEq(heap, Result_valueOr(heap, results, last.ret, d).val, fe.heap, fe.val)

\* C12: map on a Failure never invokes the mapper and returns a Failure with
\* the receiver's payload: after results[i].map(f) on a Failure holding e, no
\* callback was invoked, the returned instance answers isFailure() with true and
\* its value() equals e.
C12_MapOfFailureKeepsFailure ==
  (last.op = "Result.map" /\ Result_isFailure(results[last.recv])) =>
    /\ last.calls = <<>>
    /\ Result_isFailure(results[last.ret])
    /\ DeepEq(heap, Result_value(heap, results, last.ret).val,
              heap, results[last.recv].failureValue)

\* Result.failure({ number: 0 }).map(f) has been called
C12_Witness ==
  /\ last.op = "Result.map"
  /\ Result_isFailure(results[last.recv])
  /\ results[last.recv].failureValue.k = "object"
  /\ last.ret # last.recv

\* C13: validate(predicate, failureValueIfInvalid) keeps a Failure with its
\* payload whatever the predicate, keeps a Success whose payload satisfies the
\* predicate with the same payload, and turns a Success whose payload does not
\* satisfy it into a Failure whose value() is failureValueIfInvalid.
C13_Validate ==
  last.op = "Result.validate" =>
    LET recv == results[last.recv]
        ret == results[last.ret]
        value == Result_value(heap, results, last.ret).val
    IN /\ Result_isFailure(recv) =>
            Result_isFailure(ret) /\ DeepEq(heap, value, heap, recv.failureValue)
       /\ (Result_isSuccess(recv) /\ Test(last.fn, recv.successValue)) =>
            Result_isSuccess(ret) /\ DeepEq(heap, value, heap, recv.successValue)
       /\ (Result_isSuccess(recv) /\ ~Test(last.fn, recv.successValue)) =>
            Result_isFailure(ret) /\ DeepEq(heap, value, heap, last.arg)

\* Result.success(v).validate(p, x) has been called with p(v) false and x an
\* object
C13_Witness ==
  /\ last.op = "Result.validate"
  /\ Result_isSuccess(results[last.recv])
  /\ ~Test(last.fn, results[last.recv].successValue)
  /\ last.arg.k = "object"
  /\ Result_isFailure(results[last.ret])

\* C14: Result.fromNullish(value, failureValueIfNullish) is a Failure whose
\* value() is failureValueIfNullish exactly when value is null or undefined;
\* otherwise it is a Success holding value, the falsy 0 included.
C14_FromNullish ==
  last.op = "Result.fromNullish" =>
    LET r == results[last.ret]
        value == Result_value(heap, results, last.ret).val
    IN IF IsNullish(last.arg)
         THEN Result_isFailure(r) /\ DeepEq(heap, value, heap, last.arg2)
         ELSE Result_isSuccess(r) /\ DeepEq(heap, value, heap, last.arg)

\* Result.fromNullish(0, x) has been called and gave a Success
C14_Witness ==
  /\ last.op = "Result.fromNullish"
  /\ last.arg = Num(0)
  /\ last.arg2 # Num(0)
  /\ Result_isSuccess(results[last.ret])

\* C15: Result.fromValidator(predicate, candidate, failureValueIfInvalid) is a
\* Success holding candidate when predicate(candidate) is true and otherwise a
\* Failure whose value() is failureValueIfInvalid.
C15_FromValidator ==
  last.op = "Result.fromValidator" =>
    LET r == results[last.ret]
        value == Result_value(heap, results, last.ret).val
    IN IF Test(last.fn, last.arg)
         THEN Result_isSuccess(r) /\ DeepEq(heap, value, heap, last.arg)
         ELSE Result_isFailure(r) /\ DeepEq(heap, value, heap, last.arg2)

\* C16: Result.fromError(thunk, failureValueIfThrown) never lets an exception
\* out: when thunk throws the result is a Failure whose value() is
\* failureValueIfThrown, and when thunk returns r it is a Success whose value()
\* is r.
C16_FromError ==
  last.op = "Result.fromError" =>
    /\ ~last.threw
    /\ LET r == results[last.ret]
           value == Result_value(heap, results, last.ret).val
       IN IF Throws(last.fn)
            THEN Result_isFailure(r) /\ DeepEq(heap, value, heap, last.arg2)
            ELSE /\ Result_isSuccess(r)
                 /\ DeepEq(heap, value, Supplied.heap, Supplied.val)

\* C17: Option.fromError(thunk) never lets an exception out: the result is a
\* None when thunk throws or returns null or undefined, and otherwise a Some
\* whose valueOr(d) equals what thunk returned, for every d.
C17_OptionFromError ==
  last.op = "Option.fromError" =>
    /\ ~last.threw
    /\ LET o == options[last.ret]
       IN IF Throws(last.fn) \/ IsNullish(Supplied.val)
            THEN isNone(o)
            ELSE isSome(o) /\ ValueOrIs(heap, options, last.ret, Supplied)

\* Option.fromError(() => { throw new Error() }) has been called and returned
\* a None
C17_Witness ==
  /\ last.op = "Option.fromError"
  /\ Throws(last.fn)
  /\ last.ret > 0
  /\ isNone(options[last.ret])

\* the three extractions of options[i], in the heap h
OptionExtractions(h, os, i) ==
  {[heap |-> out.heap, val |-> out.val] :
     out \in {Option_valueOr(h, os, i, Undefined), Option_valueOrUndefined(h, os, i),
              Option_valueOrCompute(h, os, i, "toUndefined")}}

\* the three extractions of results[i], in the heap h
ResultExtractions(h, rs, i) ==
  {[heap |-> out.heap, val |-> out.val] :
     out \in {Result_value(h, rs, i), Result_valueOr(h, rs, i, Undefined),
              Result_valueOrCompute(h, rs, i, "toUndefined")}}

\* every extraction of the set after has the contents of every one of before
SameContents(before, after) ==
  \A b \in before, a \in after : DeepEq(b.heap, b.val, a.heap, a.val)

\* C18: Option extraction hands out a copy: when the caller writes to the
\* object that valueOr, valueOrCompute or valueOrUndefined returned from a
\* Some, every later extraction from that Some still has the contents it had
\* before the write.
C18_OptionExtractionCopies ==
  [][(/\ last'.op = "mutate"
      /\ last'.fn \in {"Option.valueOr", "Option.valueOrCompute", "Option.valueOrUndefined"}
      /\ isSome(options[last'.recv]))
       => SameContents(OptionExtractions(heap, options, last'.recv),
                       OptionExtractions(heap', options', last'.recv))]_vars

\* the caller has written to the object that valueOrCompute returned from a
\* Some holding an object
C18_Witness ==
  /\ last.op = "mutate"
  /\ last.fn = "Option.valueOrCompute"
  /\ isSome(options[last.recv])
  /\ options[last.recv].currentValue.k = "object"
  /\ heap[last.arg.n] = 1

\* C19: Result extraction hands out a copy: when the caller writes to the
\* object that value(), valueOr or valueOrCompute returned, every later
\* extraction from that Result still has the contents it had before the write.
C19_ResultExtractionCopies ==
  [][(/\ last'.op = "mutate"
      /\ last'.fn \in {"Result.value", "Result.valueOr", "Result.valueOrCompute"}
      /\ Result_isSuccess(results[last'.recv]))
       => SameContents(ResultExtractions(heap, results, last'.recv),
                       ResultExtractions(heap', results', last'.recv))]_vars

\* C20: an instance owns its value from construction on: when the caller
\* writes to the object it passed to Option.some, Option.from, Result.success
\* or Result.failure, every later extraction from the created instance still
\* has the contents it had before the write.
C20_ConstructionOwnsTheValue ==
  [][(/\ last'.op = "mutate"
      /\ last'.fn \in {"Option.some", "Option.from", "Result.success", "Result.failure"})
       => IF last'.fn \in {"Option.some", "Option.from"}
            THEN SameContents(OptionExtractions(heap, options, last'.recv),
                              OptionExtractions(heap', options', last'.recv))
            ELSE SameContents(ResultExtractions(heap, results, last'.recv),
                              ResultExtractions(heap', results', last'.recv))]_vars

\* the payload of the Result r: the slot of its variant
PayloadOf(r) == IF Result_isSuccess(r) THEN r.successValue ELSE r.failureValue

\* the step left the instance results[i] with its variant and with the
\* contents of its payload
ResultUntouched(i) ==
  /\ results'[i] = results[i]
  /\ DeepEq(heap, PayloadOf(results[i]), heap', PayloadOf(results[i]))

\* C21: what a Result operation hands to a callback is an independent copy:
\* in every call of map, mapFailure, recover, runEffect, runEffectWhenSuccess,
\* runEffectWhenFailure or debug, whatever the callback writes to what it
\* receives, the receiver has the same variant and the same payload contents
\* after the call as before it.
C21_CallbacksGetCopies ==
  [][(last'.op \in {"Result.map", "Result.mapFailure", "Result.recover",
                    "Result.runEffect", "Result.runEffectWhenSuccess",
                    "Result.runEffectWhenFailure", "Result.debug"})
       => ResultUntouched(last'.recv)]_vars

\* the step left the instance options[i] with its variant and with the
\* contents of its value
OptionUntouched(i) ==
  /\ options'[i] = options[i]
  /\ DeepEq(heap, options[i].currentValue, heap', options[i].currentValue)

\* C22: no operation changes an existing instance: in every call of a factory
\* or of map, mapFailure, recover, validate, reduce, runEffect*, inspect / debug
\* or an extraction, on any instance and with any callback, every Option and
\* every Result that existed before the call has the same variant and the same
\* payload contents after it.
C22_Immutability ==
  [][(last'.op # "new Object")
       => /\ \A i \in 1..Len(options) : OptionUntouched(i)
          /\ \A i \in 1..Len(results) : ResultUntouched(i)]_vars

\* the operations that exist for their side effect
SideEffectOps ==
  {"Option.runEffect", "Option.runEffectWhenSome", "Option.runEffectWhenNone",
   "Option.inspect", "Result.runEffect", "Result.runEffectWhenSuccess",
   "Result.runEffectWhenFailure", "Result.debug"}

\* C23: a side-effect operation returns the instance it was called on and
\* leaves it unchanged, whether or not the effect ran: no instance is created,
\* and the receiver has the same variant and the same payload contents after
\* the call as before it, whatever the effect writes to what it receives.
C23_SideEffectsReturnReceiver ==
  [][(last'.op \in SideEffectOps)
       => /\ last'.ret = last'.recv
          /\ options' = options
          /\ results' = results
          /\ (options # <<>>) => OptionUntouched(last'.recv)
          /\ (results # <<>>) => ResultUntouched(last'.recv)]_vars

\* the last call invoked its callback n times and no other callback
Invoked(n) == Len(last.calls) = n /\ \A k \in 1..n : last.calls[k].fn = last.fn

\* C24: an effect callback is invoked exactly once when its guard holds and
\* never otherwise: runEffectWhenSome / runEffectWhenSuccess on a Some / Success
\* only, runEffectWhenNone / runEffectWhenFailure on a None / Failure only,
\* runEffect always, and inspect / debug only when the condition is true or a
\* predicate that returns true.
C24_GuardedEffects ==
  LET once(guard) == Invoked(IF guard THEN 1 ELSE 0)
      runs == last.arg = True \/ (last.arg.k = "function" /\ CallCondition(last.arg))
  IN /\ last.op = "Option.runEffectWhenSome" => once(isSome(options[last.recv]))
     /\ last.op = "Option.runEffectWhenNone" => once(isNone(options[last.recv]))
     /\ last.op = "Option.runEffect" => once(TRUE)
     /\ last.op = "Option.inspect" => once(runs)
     /\ last.op = "Result.runEffectWhenSuccess" => once(Result_isSuccess(results[last.recv]))
     /\ last.op = "Result.runEffectWhenFailure" => once(Result_isFailure(results[last.recv]))
     /\ last.op = "Result.runEffect" => once(TRUE)
     /\ last.op = "Result.debug" => once(runs)

\* debug(() => false, fn) has been called on a Failure and did not invoke fn
C24_Witness ==
  /\ last.op = "Result.debug"
  /\ last.arg = [k |-> "function", n |-> 0]
  /\ Result_isFailure(results[last.recv])
  /\ last.calls = <<>>

\* C25: extraction with a fallback: on a Some / Success, valueOr and
\* valueOrCompute return the held value, 0 included, and invoke nothing; on a
\* None / Failure, valueOr returns the very fallback and valueOrCompute invokes
\* the thunk exactly once, without arguments, and returns its result.
C25_ExtractionWithFallback ==
  LET o == options[last.recv]
      r == results[last.recv]
      thunkRan == Invoked(1) /\ last.calls[1].arg = Undefined
                  /\ DeepEq(heap, last.val, Supplied.heap, Supplied.val)
  IN /\ last.op = "Option.valueOr" =>
          /\ last.calls = <<>>
          /\ IF isSome(o) THEN DeepEq(heap, last.val, heap, o.currentValue)
                          ELSE last.val = last.arg
     /\ last.op = "Option.valueOrCompute" =>
          IF isSome(o) THEN last.calls = <<>> /\ DeepEq(heap, last.val, heap, o.currentValue)
                       ELSE thunkRan
     /\ last.op = "Result.valueOr" =>
          /\ last.calls = <<>>
          /\ IF Result_isSuccess(r) THEN DeepEq(heap, last.val, heap, r.successValue)
                                    ELSE last.val = last.arg
     /\ last.op = "Result.valueOrCompute" =>
          IF Result_isSuccess(r)
            THEN last.calls = <<>> /\ DeepEq(heap, last.val, heap, r.successValue)
            ELSE thunkRan

\* valueOrCompute has been called on a Some holding 0 and returned 0
C25_Witness ==
  /\ last.op = "Option.valueOrCompute"
  /\ options[last.recv].currentValue = Num(0)
  /\ last.val = Num(0)
  /\ last.calls = <<>>

\* C26: the error escape hatches fire on the bad path only: on a None /
\* Failure, valueOrError and orError invoke the handler once and a throw of the
\* handler leaves the call; on a Some / Success the handler is not invoked,
\* nothing is thrown, valueOrError returns the held value and orError the
\* receiver.
C26_ErrorEscapeHatches ==
  LET good == IF last.op \in {"Option.valueOrError", "Option.orError"}
                THEN isSome(options[last.recv])
                ELSE Result_isSuccess(results[last.recv])
      held == IF last.op \in {"Option.valueOrError", "Option.orError"}
                THEN options[last.recv].currentValue
                ELSE results[last.recv].successValue
  IN last.op \in {"Option.valueOrError", "Option.orError",
                  "Result.valueOrError", "Result.orError"} =>
       IF good
         THEN /\ last.calls = <<>>
              /\ ~last.threw
              /\ last.op \in {"Option.valueOrError", "Result.valueOrError"} =>
                   DeepEq(heap, last.val, heap, held)
              /\ last.op \in {"Option.orError", "Result.orError"} => last.ret = last.recv
         ELSE Invoked(1) /\ (Throws(last.fn) => last.threw)

\* valueOrError has been called on a None with a handler that throws, and the
\* exception left the call
C26_Witness ==
  /\ last.op = "Option.valueOrError"
  /\ isNone(options[last.recv])
  /\ Throws(last.fn)
  /\ last.threw

\* C27: validate(predicate) on a None returns the receiver and never invokes
\* the predicate; on a Some it invokes the predicate once with the held value
\* and returns the receiver when the predicate holds and a None when it does
\* not; a None never becomes a Some.
C27_OptionValidate ==
  last.op = "Option.validate" =>
    LET o == options[last.recv]
    IN /\ isNone(o) => (last.ret = last.recv /\ last.calls = <<>>)
       /\ isSome(o) =>
            /\ Invoked(1)
            /\ DeepEq(heap, last.calls[1].arg, heap, o.currentValue)
            /\ IF Test(last.fn, o.currentValue)
                 THEN last.ret = last.recv
                 ELSE isNone(options[last.ret])
       /\ isSome(options[last.ret]) => isSome(o)

\* validate has been called on a Some whose value fails the predicate and
\* returned a None that is not the receiver
C27_Witness ==
  /\ last.op = "Option.validate"
  /\ isSome(options[last.recv])
  /\ ~Test(last.fn, options[last.recv].currentValue)
  /\ last.ret # last.recv
  /\ isNone(options[last.ret])

\* the Option that the last call returned
Returned == options[last.ret]

\* C29: the nullish collapse is uniform: whatever way an Option is made (some,
\* from, fromError, none, the result of map's mapper, the result of recover's
\* supplier, a failed validate), it is a None exactly when the value supplied
\* or produced is null or undefined; no Option holds undefined in its slot and
\* isNone() is the negation of isSome() on every Option.
C29_NullishCollapse ==
  /\ \A i \in 1..Len(options) :
       /\ options[i].currentValue # Undefined
       /\ isNone(options[i]) <=> ~isSome(options[i])
  /\ last.op \in {"Option.some", "Option.from"} =>
       (isNone(Returned) <=> IsNullish(last.arg))
  /\ last.op = "Option.none" => isNone(Returned)
  /\ last.op = "Option.fromError" =>
       (isNone(Returned) <=> (Throws(last.fn) \/ IsNullish(Supplied.val)))
  /\ (last.op = "Option.map" /\ isSome(options[last.recv])) =>
       (isNone(Returned) <=> IsNullish(Mapped(last.calls[1].arg).val))
  /\ (last.op = "Option.recover" /\ isNone(options[last.recv])) =>
       (isNone(Returned) <=> IsNullish(Supplied.val))
  /\ (last.op = "Option.validate" /\ last.ret # last.recv) => isNone(Returned)

\* map has been called on a Some with a mapper that returns undefined, and the
\* Option returned is a None holding null
C29_Witness ==
  /\ last.op = "Option.map"
  /\ isSome(options[last.recv])
  /\ Mapped(last.calls[1].arg).val = Undefined
  /\ Returned.currentValue = Null

\* the promise q waits for a promise that is fulfilled
AwaitedIsFulfilled(q) ==
  /\ q <= Len(promises)
  /\ promises[q].awaits # 0
  /\ promises[promises[q].awaits].state = "fulfilled"

\* the promise q is fulfilled with the instance the promise it waited for is
\* fulfilled with
FulfilledAlike(q) ==
  /\ q <= Len(promises)
  /\ promises[q].awaits # 0
  /\ promises[q].state = "fulfilled"
  /\ promises[promises[q].awaits].state = "fulfilled"
  /\ promises[q].value = promises[promises[q].awaits].value

\* the call part of C28
C28_Call ==
  /\ last.op = "Failure.mapAsync" =>
       /\ last.calls = <<>>
       /\ promises[last.ret].state = "fulfilled"
       /\ variants[promises[last.ret].value].tag = "Failure"
       /\ variants[promises[last.ret].value].value = variants[last.recv].value
  /\ last.op \in {"Success.mapAsync", "Some.mapAsync"} =>
       /\ Invoked(1)
       /\ DeepEq(heap, last.calls[1].arg, heap, variants[last.recv].value)
       /\ last.calls[1].arg.k = "object" => last.calls[1].arg # variants[last.recv].value
       /\ promises[last.ret].awaits # 0
  /\ \A q \in 1..Len(promises) :
       (promises[q].awaits # 0 /\ promises[q].state = "fulfilled") => FulfilledAlike(q)

\* C28: mapAsync follows map's short circuit: on a Failure the mapper is never
\* invoked and the promise returned is fulfilled with a Failure that has the
\* receiver's payload; on a Success or a Some the mapper is invoked once with a
\* copy of the value, and once the mapper's promise is fulfilled the promise
\* returned becomes fulfilled with the same instance.
C28_MapAsync ==
  /\ []C28_Call
  /\ \A q \in 1..MaxPromises : AwaitedIsFulfilled(q) ~> FulfilledAlike(q)

\* the promise that mapAsync returned on a Success is fulfilled with the
\* Success of a deferred mapper
C28_Witness ==
  \E q \in 1..Len(promises) :
    /\ promises[q].awaits # 0
    /\ last.op = "resume"
    /\ last.recv = q
    /\ promises[q].state = "fulfilled"
    /\ variants[promises[q].value].tag = "Success"

\* the instances the three chains have reached
ReachedResult == results[Len(results)]
ReachedSubclass == variants[Current(variants, SubclassTags)]
ReachedStandalone == variants[Current(variants, StandaloneTags)]

\* C30: the Result designs agree: from every payload and along every chain of
\* map, mapFailure and recover in which neither the payload nor a callback's
\* result is undefined, the class with the success slot and the Success /
\* Failure classes report the same variant and the same payload after each
\* step.
C30_DesignsAgree ==
  (results # <<>> /\ variants # <<>>) =>
    LET payload == Result_value(heap, results, Len(results)).val
    IN /\ Result_isSuccess(ReachedResult) <=> ReachedSubclass.tag = "Result.Success"
       /\ Result_isSuccess(ReachedResult) <=> ReachedStandalone.tag = "Success"
       /\ Result_isFailure(ReachedResult) <=> ReachedSubclass.tag = "Result.Failure"
       /\ Result_isFailure(ReachedResult) <=> ReachedStandalone.tag = "Failure"
       /\ DeepEq(heap, payload, heap, ReachedSubclass.value)
       /\ DeepEq(heap, payload, heap, ReachedStandalone.value)

\* a chain of two steps has ended with a mapFailure whose mapper wrote to the
\* object it received, and the three Failures hold an object with number 1
C30_Witness ==
  /\ last.op = "chain.mapFailure"
  /\ last.fn = "write"
  /\ Len(results) = 3
  /\ Result_isFailure(ReachedResult)
  /\ ReachedResult.failureValue.k = "object"
  /\ heap[ReachedResult.failureValue.n] = 1
  /\ ReachedStandalone.tag = "Failure"
  /\ heap[ReachedStandalone.value.n] = 1

====
